---- MODULE Spec2Model ----
(***************************************************************************)
(* Model of the payload field indexes of lib/segment:                      *)
(*   - MmapMapIndex (map_index/mmap_map_index.rs): the memory-mapped       *)
(*     inverted index value -> point ids with its tombstone bitmap.        *)
(* Point ids are 0-based as in the source; TLA+ sequences are 1-based, so  *)
(* the values of point id are point_to_values[id + 1].                     *)
(***************************************************************************)
EXTENDS Integers, Sequences, FiniteSets, TLC

\* ---------------------------------------------------------------- bounds
MaxPoints == 2      \* build inputs hold 0..MaxPoints points
MaxVals == 2        \* each point carries 0..MaxVals values
NumKeys == 1        \* the values are 1..NumKeys

\* ------------------------------------------------------ program constants
U8_BITS == 8        \* u8::BITS
USIZE_BYTES == 8    \* size_of::<usize>() on the 64-bit targets

Keys == 1..NumKeys

\* Option<T>
None == <<>>
Some(x) == <<x>>
is_some(o) == o # None
unwrap_or(o, default) == IF o = None THEN default ELSE o[1]

RECURSIVE SumLen(_)
SumLen(s) == IF s = <<>> THEN 0 ELSE Len(Head(s)) + SumLen(Tail(s))

SeqsUpTo(S, n) == UNION {[1..k -> S] : k \in 0..n}

Elems(s) == {s[i] : i \in DOMAIN s}

\* usize::div_ceil and usize::next_multiple_of
div_ceil(a, b) == (a + b - 1) \div b
next_multiple_of(a, b) == div_ceil(a, b) * b

\* Length in bits of deleted.bin for a build of n points.
deleted_len_for(n) == next_multiple_of(div_ceil(n, U8_BITS), USIZE_BYTES) * U8_BITS

VARIABLES
    config_file,            \* mmap_field_index_config.json: None or Some(total_key_value_pairs)
    value_to_points,        \* values_to_points.bin: key -> sequence of point ids
    point_to_values,        \* point-to-values files: sequence (by id) of value sequences
    deleted_mmap,           \* deleted.bin: [len |-> bits, ones |-> set bits]
    dir_files,              \* the names of the files that exist in the index directory
    storage,                \* self.storage.is_some()
    pending_updates,        \* overlay of the buffered bitslice wrapper: index -> bool
    deleted_count,          \* self.deleted_count
    total_key_value_pairs,  \* self.total_key_value_pairs
    values,                 \* history: the point_to_values input of build
    removed,                \* history: ids passed to remove_point, less the ids whose
                            \* removal was lost because open replaced the index
                            \* before the flusher had written it to deleted.bin
    lastOp                  \* history: the operation that produced this state;
                            \* "remove_point_again" is a remove_point of an id in removed,
                            \* "<op>_failed" an operation that returned an error

\* The numeric index (NumericIndexInner) is a second object with its own state.
VARIABLES
    variant,                \* "Mutable", "Immutable" or "Mmap"
    points_map,             \* the ordered store: the set of Point{val, idx} of the live points
    num_out,                \* the last call on the numeric index: [op, arg, ok, ret]
    histogram,              \* the points the index's histogram counts
    blocks_loop             \* the loop of a payload_blocks call in progress: None, or
                            \* Some([threshold, range_size, lower_bound,
                            \* pre_lower_bound, payload_conditions])

map_index_vars == <<config_file, value_to_points, point_to_values, deleted_mmap, dir_files, storage,
                    pending_updates, deleted_count, total_key_value_pairs,
                    values, removed, lastOp>>
\* The key codec (trait Encodable) is a set of pure functions; its inputs and
\* outputs are the state of a caller that applies them.
VARIABLES
    codec_in,               \* [ty, a, i, b, j]: two (value, id) pairs of one value type
    codec_out               \* [keys, back, ord]: Some(result) of encode_key on both
                            \* pairs, of decode_key on the first key, of cmp_encoded

\* The threads around the map index when the flusher runs in the background.
VARIABLES
    writer_pc,              \* the writer inside remove_point: None, or
                            \* Some(<<idx, what deleted.get(idx) returned>>)
    flusher_pc,             \* the flusher closure: "idle" or "draining"
    build_pc                \* a build in progress: "idle", or the last step it completed

\* The builders of the numeric index (FieldIndexBuilderTrait) are objects of
\* their own: a caller constructs one, calls init, add_point and finalize.
VARIABLES
    gridstore_index,        \* NumericIndexGridstoreBuilder.index: None, or Some(the points
                            \* of the mutable index)
    in_memory_index,        \* NumericIndexMmapBuilder.in_memory_index: its points
    builder_live,           \* FALSE once finalize(self) has consumed the builder
    builder_out,            \* the last call on the builder: [op, arg, ok, ret]
    builder_last            \* history: per id, None or Some(the values of the last
                            \* add_point that the builder applied for the id)

numeric_vars == <<variant, points_map, num_out, histogram, blocks_loop>>
codec_vars == <<codec_in, codec_out>>
thread_vars == <<writer_pc, flusher_pc, build_pc>>
builder_vars == <<gridstore_index, in_memory_index, builder_live, builder_out, builder_last>>
outside_map_index == <<numeric_vars, codec_vars, thread_vars, builder_vars>>
outside_numeric_index == <<map_index_vars, codec_vars, thread_vars, builder_vars>>
outside_codec == <<map_index_vars, numeric_vars, thread_vars, builder_vars>>
outside_builder == <<map_index_vars, numeric_vars, codec_vars, thread_vars>>
vars == <<map_index_vars, numeric_vars, codec_vars, thread_vars, builder_vars>>

disk == <<config_file, value_to_points, point_to_values, deleted_mmap, dir_files>>
index_state == <<storage, pending_updates, deleted_count, total_key_value_pairs>>

\* ------------------------------------------------ collaborators (storage)

\* MmapBitSliceBufferedUpdateWrapper::get: overlay first, else the mmap.
deleted_get(index) ==
    IF index >= deleted_mmap.len THEN None
    ELSE IF index \in DOMAIN pending_updates THEN Some(pending_updates[index])
    ELSE Some(index \in deleted_mmap.ones)

\* MmapBitSliceBufferedUpdateWrapper::set
deleted_set(index, value) == (index :> value) @@ pending_updates

\* MmapBitSlice::count_ones
count_ones(bitslice) == Cardinality(bitslice.ones)

\* The bitslice after the pending updates are written to it.
drained(bitslice, updates) ==
    [bitslice EXCEPT !.ones = (@ \ {i \in DOMAIN updates : ~updates[i]})
                               \cup {i \in DOMAIN updates : updates[i]}]

\* MmapPointToValues::get_values / get_values_count / check_values_any / len
ptv_get_values(idx) ==
    IF idx < Len(point_to_values) THEN Some(point_to_values[idx + 1]) ELSE None
ptv_get_values_count(idx) ==
    IF idx < Len(point_to_values) THEN Some(Len(point_to_values[idx + 1])) ELSE None
ptv_check_values_any(idx, check_fn) ==
    /\ idx < Len(point_to_values)
    /\ \E i \in DOMAIN point_to_values[idx + 1] : point_to_values[idx + 1][i] \in check_fn
ptv_len == Len(point_to_values)

\* MmapHashMap::get / keys_count
hashmap_get(value) ==
    IF value \in DOMAIN value_to_points THEN Some(value_to_points[value]) ELSE None
keys_count == Cardinality(DOMAIN value_to_points)

\* The values_to_points map the index builder hands to build: while adding
\* the points in id order it pushes the id once per value of the point.
RECURSIVE ids_of(_, _, _)
ids_of(ptv, v, n) ==
    IF n = 0 THEN <<>>
    ELSE ids_of(ptv, v, n - 1)
         \o [i \in 1..Cardinality({j \in DOMAIN ptv[n] : ptv[n][j] = v}) |-> n - 1]

builder_values_to_points(ptv) ==
    [v \in UNION {Elems(ptv[i]) : i \in DOMAIN ptv} |-> ids_of(ptv, v, Len(ptv))]

\* The value lists of a point: the order of the values of one point is
\* immaterial to every operation, so the lists are taken in ascending order.
ValueLists ==
    {l \in SeqsUpTo(Keys, MaxVals) : \A i \in 1..(Len(l) - 1) : l[i] <= l[i + 1]}

BuildInputs == SeqsUpTo(ValueLists, MaxPoints)

\* Ids the callers pass: the points, ids in the padding of deleted.bin, and
\* the first id past its end.
PointIds == 0..MaxPoints \cup {deleted_len_for(MaxPoints)}

\* ------------------------------------------------------------ operations

\* The files of the index directory; ptv_files are those of MmapPointToValues.
HASHMAP_PATH == "values_to_points.bin"
DELETED_PATH == "deleted.bin"
CONFIG_PATH == "mmap_field_index_config.json"
ptv_files == {"point_to_values.bin", "point_to_values_offsets.bin"}

\* The files a completed build leaves in the directory.
built_files == {CONFIG_PATH, HASHMAP_PATH, DELETED_PATH} \cup ptv_files

\* MmapMapIndex::open returns the error of the first file behind the config
\* file that it cannot open.
open_fails ==
    /\ CONFIG_PATH \in dir_files
    /\ ~(({HASHMAP_PATH, DELETED_PATH} \cup ptv_files) \subseteq dir_files)

\* open without the early return for a directory that has no config file.
open_result_no_stub(config, bitslice) ==
    [storage |-> TRUE, deleted_count |-> count_ones(bitslice),
     total_key_value_pairs |-> IF config = None THEN 0 ELSE config[1]]

\* open taking deleted_count as 0 instead of counting the bits of deleted.bin.
open_result_zero_count(config, bitslice) ==
    IF config = None
    THEN [storage |-> FALSE, deleted_count |-> 0, total_key_value_pairs |-> 0]
    ELSE [storage |-> TRUE, deleted_count |-> 0,
          total_key_value_pairs |-> config[1]]

\* MmapMapIndex::open: the fields of the index object open returns for the
\* given directory contents.
open_result(config, bitslice) ==
    IF config = None
    THEN [storage |-> FALSE, deleted_count |-> 0, total_key_value_pairs |-> 0]
    ELSE [storage |-> TRUE, deleted_count |-> count_ones(bitslice),
          total_key_value_pairs |-> config[1]]

\* build_config counting the points instead of their values.
build_config_points(ptv) == [total_key_value_pairs |-> Len(ptv)]

\* MmapMapIndex::build, config: the number of key-value pairs saved.
build_config(ptv) == [total_key_value_pairs |-> SumLen(ptv)]

\* build_deleted without the pass that sets the bits of the empty points.
build_deleted_zeroed(ptv) ==
    [len |-> deleted_len_for(Len(ptv)), ones |-> {}]

\* MmapMapIndex::build, deleted.bin: zero-filled, padded to a machine word,
\* with the bit of every point without values set.
build_deleted(ptv) ==
    [len |-> deleted_len_for(Len(ptv)),
     ones |-> {idx \in 0..(Len(ptv) - 1) : ptv[idx + 1] = <<>>}]

\* The numeric index before it is constructed, and its first output.
no_call == [op |-> "new", arg |-> <<>>, ok |-> TRUE, ret |-> <<>>]
numeric_absent ==
    /\ variant = "Mutable"
    /\ points_map = {}
    /\ num_out = no_call
    /\ histogram = {}
    /\ blocks_loop = None

\* No call on the map index is in progress.
threads_idle ==
    /\ writer_pc = None
    /\ flusher_pc = "idle"
    /\ build_pc = "idle"

\* The caller of the key codec before it has any input.
no_codec_call == [keys |-> None, back |-> None, ord |-> None]
codec_absent ==
    /\ codec_in = [ty |-> "Int", a |-> 0, i |-> 0, b |-> 0, j |-> 0]
    /\ codec_out = no_codec_call

\* The builders as NumericIndexGridstoreBuilder::new and
\* NumericIndex::builder_mmap construct them, before any call.
no_builder_call == [op |-> "new", arg |-> <<>>, ok |-> "ok", ret |-> None]
builder_absent ==
    /\ gridstore_index = None
    /\ in_memory_index = {}
    /\ builder_live = TRUE
    /\ builder_out = no_builder_call
    /\ builder_last = <<>>

Init ==
    /\ numeric_absent
    /\ codec_absent
    /\ builder_absent
    /\ threads_idle
    /\ config_file = None
    /\ value_to_points = <<>>
    /\ point_to_values = <<>>
    /\ deleted_mmap = [len |-> 0, ones |-> {}]
    /\ dir_files = {}
    /\ storage = open_result(None, [len |-> 0, ones |-> {}]).storage
    /\ pending_updates = <<>>
    /\ deleted_count = 0
    /\ total_key_value_pairs = 0
    /\ values = <<>>
    /\ removed = {}
    /\ lastOp = "new"

\* MmapMapIndex::build(path, point_to_values, values_to_points, is_on_disk)
build(ptv, vtp) ==
    /\ config_file = None
    /\ config_file' = Some(build_config(ptv).total_key_value_pairs)
    /\ value_to_points' = vtp
    /\ point_to_values' = ptv
    /\ deleted_mmap' = build_deleted(ptv)
    /\ dir_files' = built_files
    /\ LET o == open_result(config_file', deleted_mmap')
       IN  /\ storage' = o.storage
           /\ deleted_count' = o.deleted_count
           /\ total_key_value_pairs' = o.total_key_value_pairs
    /\ pending_updates' = <<>>
    /\ values' = ptv
    /\ removed' = {}
    /\ lastOp' = "build"
    /\ UNCHANGED outside_map_index

\* MmapMapIndex::open on the directory of the current index: the previous
\* index object, with the updates it still buffers, is dropped.
open ==
    /\ LET o == open_result(IF open_fails THEN None ELSE config_file, deleted_mmap)
       IN  /\ storage' = o.storage
           /\ deleted_count' = o.deleted_count
           /\ total_key_value_pairs' = o.total_key_value_pairs
    /\ pending_updates' = <<>>
    /\ removed' = removed \cap deleted_mmap.ones
    /\ lastOp' = IF open_fails THEN "open_failed" ELSE "open"
    /\ UNCHANGED outside_map_index
    /\ UNCHANGED <<disk, values>>

\* remove_point counting every call on a valid index, deleted or not.
remove_point_uncond(idx) ==
    /\ IF storage /\ deleted_get(idx) # None
       THEN /\ pending_updates' = deleted_set(idx, TRUE)
            /\ deleted_count' = deleted_count + 1
       ELSE UNCHANGED <<pending_updates, deleted_count>>
    /\ removed' = removed \cup {idx}
    /\ lastOp' = IF idx \in removed THEN "remove_point_again" ELSE "remove_point"
    /\ UNCHANGED outside_map_index
    /\ UNCHANGED <<disk, storage, total_key_value_pairs, values>>

\* remove_point testing the bit of the mmap instead of the buffered wrapper.
remove_point_mmap_bit(idx) ==
    /\ IF storage /\ idx < deleted_mmap.len /\ idx \notin deleted_mmap.ones
       THEN /\ pending_updates' = deleted_set(idx, TRUE)
            /\ deleted_count' = deleted_count + 1
       ELSE UNCHANGED <<pending_updates, deleted_count>>
    /\ removed' = removed \cup {idx}
    /\ lastOp' = IF idx \in removed THEN "remove_point_again" ELSE "remove_point"
    /\ UNCHANGED outside_map_index
    /\ UNCHANGED <<disk, storage, total_key_value_pairs, values>>

\* MmapMapIndex::remove_point(idx)
remove_point(idx) ==
    /\ IF storage /\ deleted_get(idx) = Some(FALSE)
       THEN /\ pending_updates' = deleted_set(idx, TRUE)
            /\ deleted_count' = deleted_count + 1
       ELSE UNCHANGED <<pending_updates, deleted_count>>
    /\ removed' = removed \cup {idx}
    /\ lastOp' = IF idx \in removed THEN "remove_point_again" ELSE "remove_point"
    /\ UNCHANGED outside_map_index
    /\ UNCHANGED <<disk, storage, total_key_value_pairs, values>>

\* The closure MmapMapIndex::flusher returns, run to completion: the buffered
\* updates are written to deleted.bin.
flusher ==
    /\ IF storage
       THEN /\ deleted_mmap' = drained(deleted_mmap, pending_updates)
            /\ pending_updates' = <<>>
       ELSE UNCHANGED <<deleted_mmap, pending_updates>>
    /\ lastOp' = "flusher"
    /\ UNCHANGED outside_map_index
    /\ UNCHANGED <<config_file, value_to_points, point_to_values, dir_files, storage,
                   deleted_count, total_key_value_pairs, values, removed>>

\* std::fs::exists
file_exists(file) == file \in dir_files

\* MmapMapIndex::files
files ==
    {HASHMAP_PATH, DELETED_PATH, CONFIG_PATH} \cup (IF storage THEN ptv_files ELSE {})

\* std::fs::remove_file fails on a file that does not exist.
remove_file_ok(file) == file_exists(file)

\* memory::fadvise::clear_disk_cache: a hint to drop the cached pages.
clear_disk_cache_ok(file) == TRUE

\* MmapMapIndex::wipe consumes the index: every file of files() is removed,
\* the first failure is returned. Afterwards the model continues with the
\* stub that open returns for the directory.
wipe ==
    /\ IF \A file \in files : remove_file_ok(file)
       THEN /\ config_file' = None
            /\ dir_files' = {}
            /\ value_to_points' = <<>>
            /\ point_to_values' = <<>>
            /\ deleted_mmap' = [len |-> 0, ones |-> {}]
            /\ values' = <<>>
            /\ lastOp' = "wipe"
       ELSE /\ UNCHANGED <<disk, values>>
            /\ lastOp' = "wipe_failed"
    /\ LET o == open_result(config_file', deleted_mmap')
       IN  /\ storage' = o.storage
           /\ deleted_count' = o.deleted_count
           /\ total_key_value_pairs' = o.total_key_value_pairs
    /\ pending_updates' = <<>>
    /\ removed' = {}
    /\ UNCHANGED outside_map_index

\* MmapMapIndex::populate
populate ==
    /\ lastOp' = "populate"
    /\ UNCHANGED outside_map_index
    /\ UNCHANGED <<disk, index_state, values, removed>>

\* MmapMapIndex::clear_cache
clear_cache ==
    /\ lastOp' = IF /\ clear_disk_cache_ok(HASHMAP_PATH)
                    /\ clear_disk_cache_ok(DELETED_PATH)
                 THEN "clear_cache" ELSE "clear_cache_failed"
    /\ UNCHANGED outside_map_index
    /\ UNCHANGED <<disk, index_state, values, removed>>

Next ==
    \/ \E ptv \in BuildInputs : build(ptv, builder_values_to_points(ptv))
    \/ open
    \/ \E idx \in PointIds : remove_point(idx)
    \/ flusher

Spec == Init /\ [][Next]_vars

\* The index under its lifecycle operations as well.
NextLifecycle ==
    \/ \E ptv \in BuildInputs : build(ptv, builder_values_to_points(ptv))
    \/ open
    \/ \E idx \in PointIds : remove_point(idx)
    \/ flusher
    \/ wipe
    \/ populate
    \/ clear_cache

SpecLifecycle == Init /\ [][NextLifecycle]_vars

\* ---------------------------------------------------------------------------
\* MmapMapIndex::build step by step, for a process that stops in the middle
\* of it. The builder owns the directory until build returns.

\* create_dir_all and atomic_save_json of the config file.
build_save_config(ptv) ==
    /\ build_pc = "idle"
    /\ dir_files = {}
    /\ config_file' = Some(build_config(ptv).total_key_value_pairs)
    /\ dir_files' = dir_files \cup {CONFIG_PATH}
    /\ values' = ptv
    /\ removed' = {}
    /\ lastOp' = "building"
    /\ build_pc' = "config"
    /\ UNCHANGED <<value_to_points, point_to_values, deleted_mmap, index_state>>
    /\ UNCHANGED <<numeric_vars, codec_vars, builder_vars, writer_pc, flusher_pc>>

\* MmapHashMap::create
build_create_hashmap ==
    /\ build_pc = "config"
    /\ value_to_points' = builder_values_to_points(values)
    /\ dir_files' = dir_files \cup {HASHMAP_PATH}
    /\ build_pc' = "hashmap"
    /\ UNCHANGED <<config_file, point_to_values, deleted_mmap, index_state,
                   values, removed, lastOp>>
    /\ UNCHANGED <<numeric_vars, codec_vars, builder_vars, writer_pc, flusher_pc>>

\* MmapPointToValues::from_iter
build_point_to_values ==
    /\ build_pc = "hashmap"
    /\ point_to_values' = values
    /\ dir_files' = dir_files \cup ptv_files
    /\ build_pc' = "point_to_values"
    /\ UNCHANGED <<config_file, value_to_points, deleted_mmap, index_state,
                   values, removed, lastOp>>
    /\ UNCHANGED <<numeric_vars, codec_vars, builder_vars, writer_pc, flusher_pc>>

\* create_and_ensure_length of deleted.bin and deleted_mmap.fill(0)
build_create_deleted ==
    /\ build_pc = "point_to_values"
    /\ deleted_mmap' = [len |-> deleted_len_for(Len(values)), ones |-> {}]
    /\ dir_files' = dir_files \cup {DELETED_PATH}
    /\ build_pc' = "deleted"
    /\ UNCHANGED <<config_file, value_to_points, point_to_values, index_state,
                   values, removed, lastOp>>
    /\ UNCHANGED <<numeric_vars, codec_vars, builder_vars, writer_pc, flusher_pc>>

\* The loop that sets the bit of every point without values.
build_set_deleted ==
    /\ build_pc = "deleted"
    /\ deleted_mmap' = build_deleted(values)
    /\ build_pc' = "bits"
    /\ UNCHANGED <<config_file, value_to_points, point_to_values, dir_files, index_state,
                   values, removed, lastOp>>
    /\ UNCHANGED <<numeric_vars, codec_vars, builder_vars, writer_pc, flusher_pc>>

\* Self::open(path, is_on_disk), the last statement of build.
build_open ==
    /\ build_pc = "bits"
    /\ LET o == open_result(config_file, deleted_mmap)
       IN  /\ storage' = o.storage
           /\ deleted_count' = o.deleted_count
           /\ total_key_value_pairs' = o.total_key_value_pairs
    /\ pending_updates' = <<>>
    /\ lastOp' = "build"
    /\ build_pc' = "idle"
    /\ UNCHANGED <<disk, values, removed>>
    /\ UNCHANGED <<numeric_vars, codec_vars, builder_vars, writer_pc, flusher_pc>>

\* The process stops inside build: the files written so far stay as they are.
build_interrupted ==
    /\ build_pc # "idle"
    /\ build_pc' = "idle"
    /\ lastOp' = "interrupted"
    /\ UNCHANGED <<disk, index_state, values, removed>>
    /\ UNCHANGED <<numeric_vars, codec_vars, builder_vars, writer_pc, flusher_pc>>

\* A build that may be interrupted after each step, and open on what it left.
NextCrash ==
    \/ \E ptv \in BuildInputs : build_save_config(ptv)
    \/ build_create_hashmap
    \/ build_point_to_values
    \/ build_create_deleted
    \/ build_set_deleted
    \/ build_open
    \/ build_interrupted
    \/ build_pc = "idle" /\ open

SpecCrash == Init /\ [][NextCrash]_vars

\* --------------------------------------------------------------- queries

\* MmapMapIndex::check_values_any; check_fn is the set of values it accepts.
check_values_any(idx, check_fn) ==
    /\ storage
    /\ deleted_get(idx) = Some(FALSE)
    /\ ptv_check_values_any(idx, check_fn)

\* get_values without the tombstone check.
get_values_unchecked(idx) ==
    IF ~storage THEN None ELSE ptv_get_values(idx)

\* MmapMapIndex::get_values
get_values(idx) ==
    IF ~storage THEN None
    ELSE IF deleted_get(idx) = Some(FALSE) THEN ptv_get_values(idx) ELSE None

\* MmapMapIndex::values_count
values_count(idx) ==
    IF ~storage THEN None
    ELSE IF deleted_get(idx) = Some(FALSE) THEN ptv_get_values_count(idx) ELSE None

\* usize::saturating_sub
saturating_sub(a, b) == IF a >= b THEN a - b ELSE 0

\* MmapMapIndex::get_indexed_points
get_indexed_points ==
    IF ~storage THEN 0 ELSE saturating_sub(ptv_len, deleted_count)

\* MmapMapIndex::get_values_count
get_values_count == total_key_value_pairs

\* MmapMapIndex::get_unique_values_count
get_unique_values_count == IF ~storage THEN 0 ELSE keys_count

\* get_count_for_value counting only the ids that are not tombstoned.
get_count_for_value_live(value) ==
    IF ~storage THEN None
    ELSE IF hashmap_get(value) = None THEN None
    ELSE Some(Len(SelectSeq(hashmap_get(value)[1],
                            LAMBDA idx : ~unwrap_or(deleted_get(idx), FALSE))))

\* MmapMapIndex::get_count_for_value
get_count_for_value(value) ==
    IF ~storage THEN None
    ELSE IF hashmap_get(value) = None THEN None
    ELSE Some(Len(hashmap_get(value)[1]))

\* get_iterator testing the tombstone bit of the next id.
get_iterator_off_by_one(value) ==
    IF ~storage THEN <<>>
    ELSE IF hashmap_get(value) = None THEN <<>>
    ELSE SelectSeq(hashmap_get(value)[1],
                   LAMBDA idx : ~unwrap_or(deleted_get(idx + 1), FALSE))

\* get_iterator without the tombstone filter.
get_iterator_unfiltered(value) ==
    IF ~storage THEN <<>>
    ELSE IF hashmap_get(value) = None THEN <<>>
    ELSE hashmap_get(value)[1]

\* MmapMapIndex::get_iterator: the ids it yields, in order.
get_iterator(value) ==
    IF ~storage THEN <<>>
    ELSE IF hashmap_get(value) = None THEN <<>>
    ELSE SelectSeq(hashmap_get(value)[1],
                   LAMBDA idx : ~unwrap_or(deleted_get(idx), FALSE))

\* Ascending enumeration of a finite set of integers.
RECURSIVE sorted(_)
sorted(S) ==
    IF S = {} THEN <<>>
    ELSE LET m == CHOOSE x \in S : \A y \in S : x <= y
         IN  <<m>> \o sorted(S \ {m})

\* MmapHashMap::iter / keys: every stored entry once (here in key order).
hashmap_keys == sorted(DOMAIN value_to_points)

\* MmapMapIndex::iter_values
iter_values == IF ~storage THEN <<>> ELSE hashmap_keys

\* iter_counts_per_value without unique().
iter_counts_per_value_dup ==
    IF ~storage THEN <<>>
    ELSE [i \in DOMAIN hashmap_keys |->
            LET k == hashmap_keys[i]
                live == SelectSeq(value_to_points[k],
                                  LAMBDA idx : ~unwrap_or(deleted_get(idx), TRUE))
            IN  <<k, Len(live)>>]

\* MmapMapIndex::iter_counts_per_value: the (key, count) pairs it yields.
iter_counts_per_value ==
    IF ~storage THEN <<>>
    ELSE [i \in DOMAIN hashmap_keys |->
            LET k == hashmap_keys[i]
                live == SelectSeq(value_to_points[k],
                                  LAMBDA idx : ~unwrap_or(deleted_get(idx), TRUE))
            IN  <<k, Cardinality(Elems(live))>>]

\* MmapMapIndex::iter_values_map: the (key, ids) pairs it yields.
iter_values_map ==
    IF ~storage THEN <<>>
    ELSE [i \in DOMAIN hashmap_keys |->
            LET k == hashmap_keys[i]
            IN  <<k, SelectSeq(value_to_points[k],
                               LAMBDA idx : ~unwrap_or(deleted_get(idx), TRUE))>>]

\* MmapMapIndex::load
load == storage

\* The values_to_points maps that build accepts: build takes the map as an
\* argument of its own and stores it as it is, whatever ids its entries hold;
\* the entries are ascending and deduplicated.
HashmapInputs ==
    UNION {[ks -> {sorted(ids) : ids \in SUBSET PointIds}] : ks \in SUBSET Keys}

\* The index built from any arguments of build.
NextUnchecked ==
    \/ \E ptv \in BuildInputs, vtp \in HashmapInputs : build(ptv, vtp)
    \/ open
    \/ \E idx \in PointIds : remove_point(idx)
    \/ flusher

SpecUnchecked == Init /\ [][NextUnchecked]_vars

\* ============================================================ properties

BuiltIds == 0..(Len(values) - 1)
ValuesOf(id) == Elems(values[id + 1])
EmptyAtBuild == {id \in BuiltIds : values[id + 1] = <<>>}
BuiltKeys == UNION {ValuesOf(id) : id \in BuiltIds}
Tombstoned(id) == deleted_get(id) = Some(TRUE)
Live(id) == id \in BuiltIds /\ deleted_get(id) = Some(FALSE)
\* The (point, position) pairs of the build input that hold value v.
Occurrences(v) ==
    UNION {{<<i, j>> : j \in {j \in DOMAIN values[i] : values[i][j] = v}} : i \in DOMAIN values}

\* C1 Completeness: every point that had values at build is yielded by
\* get_iterator(v) for each of its values v as long as remove_point has not
\* been called for it; removing other points does not hide it.
Completeness ==
    \A id \in BuiltIds : \A v \in ValuesOf(id) :
        id \notin removed => id \in Elems(get_iterator(v))

\* C1 witness: a point still yielded for a value after another point that
\* carries the same value has been removed.
CompletenessWitness ==
    \E id \in BuiltIds, other \in BuiltIds : \E v \in Keys :
        /\ id # other
        /\ v \in ValuesOf(id) \cap ValuesOf(other)
        /\ other \in removed /\ id \notin removed
        /\ id \in Elems(get_iterator(v))
        /\ other \notin Elems(get_iterator(v))

\* C2 Tombstone monotonicity: an id passed to remove_point on the opened
\* index is yielded by get_iterator for no value in any later state,
\* whatever remove_point and flusher calls follow (and, once flushed,
\* whatever open calls).
TombstoneMonotonicity ==
    \A id \in removed : \A v \in Keys : id \notin Elems(get_iterator(v))

\* C2 witness: a removed point that had values, after a flush and a further
\* removal of another point.
TombstoneMonotonicityWitness ==
    /\ lastOp = "flusher"
    /\ \E id \in removed \cap BuiltIds :
        /\ ValuesOf(id) # {}
        /\ id \in deleted_mmap.ones
        /\ \E other \in removed : other # id /\ other \in BuiltIds

\* C3 Empty-on-build: right after build every point without values is
\* tombstoned: get_values is None for it and deleted_count counts it.
EmptyOnBuild ==
    lastOp = "build" =>
        /\ \A id \in EmptyAtBuild : get_values(id) = None /\ Tombstoned(id)
        /\ deleted_count = Cardinality(EmptyAtBuild)

\* C3 witness: a build of an empty and a non-empty point.
EmptyOnBuildWitness ==
    /\ lastOp = "build"
    /\ EmptyAtBuild # {}
    /\ BuiltIds \ EmptyAtBuild # {}
    /\ deleted_count = 1

\* C4 Reads of a point: for a tombstoned or out-of-range id get_values and
\* values_count are None and check_values_any is false for every predicate;
\* for a live id get_values is exactly the values stored at build.
PointReads ==
    \A idx \in PointIds :
        /\ (idx \notin BuiltIds \/ Tombstoned(idx)) =>
              /\ get_values(idx) = None
              /\ values_count(idx) = None
              /\ \A check_fn \in SUBSET Keys : ~check_values_any(idx, check_fn)
        /\ Live(idx) => get_values(idx) = Some(values[idx + 1])

\* C4 witness: a live point with values next to a removed point with values.
PointReadsWitness ==
    \E a \in BuiltIds, b \in BuiltIds :
        /\ Live(a) /\ get_values(a) # None /\ get_values(a) # Some(<<>>)
        /\ b \in removed /\ ValuesOf(b) # {} /\ get_values(b) = None

\* C5 as stated: after build and remove_point calls deleted_count is the
\* number of distinct ids passed to remove_point plus the number of points
\* empty at build.
DeletedCountAsStated ==
    config_file # None =>
        deleted_count = Cardinality(removed) + Cardinality(EmptyAtBuild)

\* C5 Deleted count (amended): after build and remove_point calls
\* deleted_count is the number of points empty at build plus the number of
\* distinct ids passed to remove_point that lie below the length of the
\* tombstone bitmap and were not empty at build.
DeletedCount ==
    config_file # None =>
        deleted_count =
            Cardinality({id \in removed :
                            id < deleted_mmap.len /\ id \notin EmptyAtBuild})
            + Cardinality(EmptyAtBuild)

\* C5 witness: an empty point and a point with values have both been removed.
DeletedCountWitness ==
    /\ config_file # None
    /\ removed \cap EmptyAtBuild # {}
    /\ (removed \cap BuiltIds) \ EmptyAtBuild # {}
    /\ deleted_count = 2

\* C6 Idempotence: a remove_point(id) that repeats an earlier call on the
\* index changes neither the tombstone bitmap nor deleted_count (nor
\* anything else of the index).
RemovePointIdempotent ==
    [][lastOp' = "remove_point_again" => UNCHANGED <<disk, index_state>>]_vars

\* C6 witness: a repeated remove_point of a point with values, its first
\* removal not yet flushed.
RemovePointIdempotentWitness ==
    /\ lastOp = "remove_point_again"
    /\ \E idx \in removed \cap (BuiltIds \ EmptyAtBuild) : idx \in DOMAIN pending_updates
    /\ Cardinality(removed) = 1
    /\ deleted_count = 1

\* C7 Deleting a non-existent id is a no-op: remove_point(id) with id not a
\* build-time point (the padding of deleted.bin included) leaves
\* deleted_count, get_indexed_points and every query result unchanged.
RemoveNonExistentNoop ==
    [][(storage /\ lastOp' = "remove_point" /\ (removed' \ removed) \cap BuiltIds = {}) =>
            /\ deleted_count' = deleted_count
            /\ get_indexed_points' = get_indexed_points
            /\ \A v \in Keys : get_iterator(v)' = get_iterator(v)
            /\ \A idx \in PointIds : get_values(idx)' = get_values(idx)
            /\ iter_counts_per_value' = iter_counts_per_value]_vars

CountForValue ==
    \A v \in Keys :
        /\ get_count_for_value(v) =
              IF Occurrences(v) = {} THEN None ELSE Some(Cardinality(Occurrences(v)))
        /\ Len(get_iterator(v)) <= unwrap_or(get_count_for_value(v), 0)

\* C9 witness: a value whose count exceeds the ids get_iterator yields.
CountForValueWitness ==
    \E v \in Keys :
        /\ get_count_for_value(v) = Some(2)
        /\ Len(get_iterator(v)) = 1
        /\ removed # {}

\* The count the sequence counts of (key, count) pairs reports for key k.
count_of(counts, k) ==
    LET i == CHOOSE i \in DOMAIN counts : counts[i][1] = k
    IN  counts[i][2]

\* C10 Counts per value: iter_counts_per_value reports every key exactly
\* once, with the number of distinct ids of its list that are not
\* tombstoned in the current state; that is the number of points built with
\* the key less one for each of them that has been removed.
CountsPerValue ==
    LET counts == iter_counts_per_value
    IN  /\ Len(counts) = Cardinality(BuiltKeys)
        /\ \A k \in BuiltKeys :
            LET carriers == {id \in BuiltIds : k \in ValuesOf(id)}
            IN  /\ Cardinality({i \in DOMAIN counts : counts[i][1] = k}) = 1
                /\ count_of(counts, k) =
                      Cardinality({id \in carriers : ~Tombstoned(id)})
                /\ count_of(counts, k) =
                      Cardinality(carriers) - Cardinality(carriers \cap removed)

\* C10 witness: a key reported with count 0 after its last live point, which
\* carried the value twice, was removed.
CountsPerValueWitness ==
    /\ lastOp = "remove_point"
    /\ \E k \in BuiltKeys :
        /\ count_of(iter_counts_per_value, k) = 0
        /\ Len(value_to_points[k]) = 2
        /\ Cardinality(Elems(value_to_points[k])) = 1

\* ---------------------------------------------------------------------------
\* The map index with the flusher closure on a background thread: one writer
\* calls remove_point, whose deleted.get and deleted.set are two calls on the
\* buffered wrapper, while the closure drains the overlay one index at a time.

\* remove_point that returns without the deleted.set.
remove_point_return_no_set ==
    /\ writer_pc # None
    /\ IF writer_pc[1][2] = Some(FALSE)
       THEN /\ deleted_count' = deleted_count + 1
            /\ UNCHANGED pending_updates
       ELSE UNCHANGED <<pending_updates, deleted_count>>
    /\ removed' = removed \cup {writer_pc[1][1]}
    /\ writer_pc' = None
    /\ UNCHANGED <<disk, storage, total_key_value_pairs, values, lastOp, flusher_pc, build_pc>>
    /\ UNCHANGED <<numeric_vars, codec_vars, builder_vars>>

\* MmapMapIndex::remove_point up to the result of storage.deleted.get(idx);
\* without storage there is nothing to get.
remove_point_get(idx) ==
    /\ writer_pc = None
    /\ writer_pc' = Some(<<idx, IF storage THEN deleted_get(idx) ELSE None>>)
    /\ UNCHANGED <<map_index_vars, flusher_pc, build_pc>>
    /\ UNCHANGED <<numeric_vars, codec_vars, builder_vars>>

\* MmapMapIndex::remove_point from there to its return.
remove_point_return ==
    /\ writer_pc # None
    /\ IF writer_pc[1][2] = Some(FALSE)
       THEN /\ pending_updates' = deleted_set(writer_pc[1][1], TRUE)
            /\ deleted_count' = deleted_count + 1
       ELSE UNCHANGED <<pending_updates, deleted_count>>
    /\ removed' = removed \cup {writer_pc[1][1]}
    /\ writer_pc' = None
    /\ UNCHANGED <<disk, storage, total_key_value_pairs, values, lastOp, flusher_pc, build_pc>>
    /\ UNCHANGED <<numeric_vars, codec_vars, builder_vars>>

\* The host engine starts the closure that MmapMapIndex::flusher returned.
flusher_start ==
    /\ flusher_pc = "idle"
    /\ flusher_pc' = "draining"
    /\ UNCHANGED <<map_index_vars, writer_pc, build_pc>>
    /\ UNCHANGED <<numeric_vars, codec_vars, builder_vars>>

\* The closure of the buffered wrapper drains the overlay in sorted order:
\* under the overlay's synchronization the lowest buffered index is written
\* to deleted.bin and leaves the overlay.
flusher_drain ==
    /\ flusher_pc = "draining"
    /\ storage
    /\ pending_updates # <<>>
    /\ LET index == CHOOSE i \in DOMAIN pending_updates :
                        \A k \in DOMAIN pending_updates : i <= k
       IN  /\ deleted_mmap' = drained(deleted_mmap, (index :> pending_updates[index]))
           /\ pending_updates' = [k \in DOMAIN pending_updates \ {index} |-> pending_updates[k]]
    /\ UNCHANGED <<config_file, value_to_points, point_to_values, dir_files, storage,
                   deleted_count, total_key_value_pairs, values, removed, lastOp>>
    /\ UNCHANGED thread_vars
    /\ UNCHANGED <<numeric_vars, codec_vars, builder_vars>>

\* The closure returns Ok: the overlay is drained, or the index has no storage.
flusher_done ==
    /\ flusher_pc = "draining"
    /\ ~storage \/ pending_updates = <<>>
    /\ flusher_pc' = "idle"
    /\ UNCHANGED <<map_index_vars, writer_pc, build_pc>>
    /\ UNCHANGED <<numeric_vars, codec_vars, builder_vars>>

\* The indexes under the background flusher: points of no or one value.
FlushBuildInputs == SeqsUpTo({<<>>} \cup {<<k>> : k \in Keys}, MaxPoints)

\* Building is not concurrent with the calls on an index: the index is built
\* while no call is in progress.
NextFlush ==
    \/ \E ptv \in FlushBuildInputs :
            threads_idle /\ build(ptv, builder_values_to_points(ptv))
    \/ \E idx \in PointIds : remove_point_get(idx)
    \/ remove_point_return
    \/ flusher_start
    \/ flusher_drain
    \/ flusher_done

SpecFlush == Init /\ [][NextFlush]_vars

\* ---------------------------------------------------------------------------
\* The numeric index: NumericIndexInner over its three variants.

NumMaxId == 1       \* the point ids of the numeric index are 0..NumMaxId
NumMaxVal == 1      \* its values are 0..NumMaxVal

Variants == {"Mutable", "Immutable", "Mmap"}
ValueTypes == {"Int", "DateTime", "Float", "Uuid"}
NumIds == 0..NumMaxId
NumVals == 0..NumMaxVal

\* histogram::Point{val, idx} is <<val, idx>>, ordered by val and then by idx.
Point_new(val, idx) == <<val, idx>>
Points == NumVals \X NumIds
Point_lt(a, b) == a[1] < b[1] \/ (a[1] = b[1] /\ a[2] < b[2])

\* PointOffsetType is u32: MIN is 0; MAX (2^32 - 1) is only ever a sentinel above
\* every stored id, here the largest integer the model checker has.
PointOffsetType_MIN == 0
PointOffsetType_MAX == 2147483647

\* std::ops::Bound
Unbounded == <<"Unbounded">>
Included(x) == <<"Included", x>>
Excluded(x) == <<"Excluded", x>>

\* The read surface of the ordered store that the facade uses.
point_values(idx) == {p[1] : p \in {q \in points_map : q[2] = idx}}
get_points_count == Cardinality({p[2] : p \in points_map})
total_unique_values_count == Cardinality(points_map)

\* MutableNumericIndex::add_many_to_list: every value is inserted as a point.
add_many_to_list(idx, vals) == points_map \cup {Point_new(v, idx) : v \in vals}

\* remove_point of the three stores: the mutable and immutable ones drop the
\* point's keys, the mmap one flips its tombstone so that reads skip them.
store_remove_point(idx) == {p \in points_map : p[2] # idx}

\* The histogram after a mutation left the store with the given points: the
\* mutable and immutable stores maintain it online, the mmap store builds it
\* when it is loaded and leaves it alone afterwards.
histogram_after(points) == IF variant = "Mmap" THEN histogram ELSE points

\* The queries take &self and leave the index as it is: a query after a query
\* reaches nothing that the query alone does not reach, so the caller issues
\* each call on an index that was just constructed or mutated.
Mutations == {"new", "add_many", "remove_point"}
index_at_rest == num_out.op \in Mutations /\ blocks_loop = None

\* add_many that forwards to the store whatever the variant is.
add_many_any_variant(ty, id, vals) ==
    /\ index_at_rest
    /\ points_map' = add_many_to_list(id, vals)
    /\ histogram' = histogram_after(points_map')
    /\ num_out' = [op |-> "add_many", arg |-> <<ty>>, ok |-> TRUE, ret |-> <<>>]
    /\ UNCHANGED <<variant, blocks_loop>>
    /\ UNCHANGED outside_numeric_index

\* ValueIndexer::add_many of NumericIndex<_, Int | DateTime | Float | Uuid>:
\* the four implementations have the same body.
\* The output keeps the value type and, for an error, the contents before the call.
add_many(ty, id, vals) ==
    /\ index_at_rest
    /\ IF variant = "Mutable"
       THEN /\ points_map' = add_many_to_list(id, vals)
            /\ histogram' = histogram_after(points_map')
            /\ num_out' = [op |-> "add_many", arg |-> <<ty>>, ok |-> TRUE, ret |-> <<>>]
       ELSE /\ UNCHANGED <<points_map, histogram>>
            /\ num_out' = [op |-> "add_many", arg |-> <<ty>>, ok |-> FALSE, ret |-> points_map]
    /\ UNCHANGED <<variant, blocks_loop>>
    /\ UNCHANGED outside_numeric_index

\* NumericIndexInner::remove_point
numeric_remove_point(idx) ==
    /\ index_at_rest
    /\ points_map' = store_remove_point(idx)
    /\ histogram' = histogram_after(points_map')
    /\ num_out' = [op |-> "remove_point", arg |-> <<>>, ok |-> TRUE, ret |-> <<>>]
    /\ UNCHANGED <<variant, blocks_loop>>
    /\ UNCHANGED outside_numeric_index

\* types::Range{lt, gt, gte, lte} and the FieldCondition fields the index reads:
\* match is Some(value) for a string that parses as a UUID.
OptVals == {None} \cup {Some(v) : v \in NumVals}
Ranges == [lt : OptVals, gt : OptVals, gte : OptVals, lte : OptVals]
Conditions ==
    {[match |-> m, range |-> None] : m \in OptVals}
        \cup {[match |-> None, range |-> Some(r)] : r \in Ranges}

\* Range::as_index_key_bounds
as_index_key_bounds(range) ==
    LET start_bound ==
            IF is_some(range.gt) THEN Excluded(Point_new(range.gt[1], PointOffsetType_MAX))
            ELSE IF is_some(range.gte)
                 THEN Included(Point_new(range.gte[1], PointOffsetType_MIN))
                 ELSE Unbounded
        end_bound ==
            IF is_some(range.lt) THEN Excluded(Point_new(range.lt[1], PointOffsetType_MIN))
            ELSE IF is_some(range.lte)
                 THEN Included(Point_new(range.lte[1], PointOffsetType_MAX))
                 ELSE Unbounded
    IN  <<start_bound, end_bound>>

\* utils::check_boundaries: false for the bounds that BTreeMap::range rejects.
check_boundaries(start, end) ==
    IF start = Unbounded \/ end = Unbounded THEN TRUE
    ELSE IF start[1] = "Excluded" /\ end[1] = "Excluded" /\ ~Point_lt(start[2], end[2])
         THEN FALSE
         ELSE ~Point_lt(end[2], start[2])

\* "Panics if range start > end. Panics if range start == end and both bounds
\* are Excluded."
range_panics(start, end) ==
    /\ start # Unbounded
    /\ end # Unbounded
    /\ \/ Point_lt(end[2], start[2])
       \/ start[2] = end[2] /\ start[1] = "Excluded" /\ end[1] = "Excluded"

above(p, start) ==
    \/ start = Unbounded
    \/ start[1] = "Included" /\ ~Point_lt(p, start[2])
    \/ start[1] = "Excluded" /\ Point_lt(start[2], p)
below(p, end) ==
    \/ end = Unbounded
    \/ end[1] = "Included" /\ ~Point_lt(end[2], p)
    \/ end[1] = "Excluded" /\ Point_lt(p, end[2])

\* The points of a set in key order.
RECURSIVE in_key_order(_)
in_key_order(S) ==
    IF S = {} THEN <<>>
    ELSE LET first == CHOOSE p \in S : \A q \in S \ {p} : Point_lt(p, q)
         IN  <<first>> \o in_key_order(S \ {first})

\* orderable_values_range of the stores: the (value, id) pairs between the
\* bounds in key order.
orderable_values_range(start, end) ==
    in_key_order({p \in points_map : above(p, start) /\ below(p, end)})

\* values_range of the stores: the ids of the same keys.
values_range(start, end) ==
    LET keys == orderable_values_range(start, end)
    IN  [i \in 1..Len(keys) |-> keys[i][2]]

\* filter that hands every interval to the store.
filter_output_unchecked(condition) ==
        IF is_some(condition.match)
        THEN [op |-> "filter", arg |-> condition, ok |-> TRUE,
              ret |-> Some(values_range(
                        Included(Point_new(condition.match[1], PointOffsetType_MIN)),
                        Included(Point_new(condition.match[1], PointOffsetType_MAX))))]
        ELSE IF condition.range = None
        THEN [op |-> "filter", arg |-> condition, ok |-> TRUE, ret |-> None]
        ELSE LET bounds == as_index_key_bounds(condition.range[1])
             IN  IF range_panics(bounds[1], bounds[2])
                 THEN [op |-> "filter", arg |-> condition, ok |-> FALSE, ret |-> None]
                 ELSE [op |-> "filter", arg |-> condition, ok |-> TRUE,
                       ret |-> Some(values_range(bounds[1], bounds[2]))]

\* NumericIndexInner::point_ids_by_value
point_ids_by_value(value) ==
    values_range(Included(Point_new(value, PointOffsetType_MIN)),
                 Included(Point_new(value, PointOffsetType_MAX)))

\* The output of PayloadFieldIndex::filter of NumericIndexInner; ok is FALSE
\* for a panic.
filter_output(condition) ==
        IF is_some(condition.match)
        THEN [op |-> "filter", arg |-> condition, ok |-> TRUE,
              ret |-> Some(point_ids_by_value(condition.match[1]))]
        ELSE IF condition.range = None
        THEN [op |-> "filter", arg |-> condition, ok |-> TRUE, ret |-> None]
        ELSE LET bounds == as_index_key_bounds(condition.range[1])
             IN  IF ~check_boundaries(bounds[1], bounds[2])
                 THEN [op |-> "filter", arg |-> condition, ok |-> TRUE, ret |-> Some(<<>>)]
                 ELSE IF range_panics(bounds[1], bounds[2])
                 THEN [op |-> "filter", arg |-> condition, ok |-> FALSE, ret |-> None]
                 ELSE [op |-> "filter", arg |-> condition, ok |-> TRUE,
                       ret |-> Some(values_range(bounds[1], bounds[2]))]

\* PayloadFieldIndex::filter of NumericIndexInner
filter(condition) ==
    /\ index_at_rest
    /\ num_out' = filter_output(condition)
    /\ UNCHANGED <<variant, points_map, histogram, blocks_loop>>
    /\ UNCHANGED outside_numeric_index

\* StreamRange::stream_range of NumericIndexInner
stream_range(range) ==
    /\ index_at_rest
    /\ LET bounds == as_index_key_bounds(range)
       IN  num_out' =
            IF ~check_boundaries(bounds[1], bounds[2])
            THEN [op |-> "stream_range", arg |-> range, ok |-> TRUE, ret |-> <<>>]
            ELSE IF range_panics(bounds[1], bounds[2])
            THEN [op |-> "stream_range", arg |-> range, ok |-> FALSE, ret |-> <<>>]
            ELSE [op |-> "stream_range", arg |-> range, ok |-> TRUE,
                  ret |-> orderable_values_range(bounds[1], bounds[2])]
    /\ UNCHANGED <<variant, points_map, histogram, blocks_loop>>
    /\ UNCHANGED outside_numeric_index

\* NumericIndexInner::max_values_per_point, from the stores' contents.
max_values_per_point ==
    LET counts == {Cardinality(point_values(idx)) : idx \in NumIds}
    IN  CHOOSE m \in counts : \A c \in counts : c <= m

max(a, b) == IF a >= b THEN a ELSE b
min(a, b) == IF a <= b THEN a ELSE b

\* A value lies on the right side of a bound over values.
value_above(v, bound) ==
    \/ bound = Unbounded
    \/ bound[1] = "Included" /\ v >= bound[2]
    \/ bound[1] = "Excluded" /\ v > bound[2]
value_below(v, bound) ==
    \/ bound = Unbounded
    \/ bound[1] = "Included" /\ v <= bound[2]
    \/ bound[1] = "Excluded" /\ v < bound[2]

\* Histogram::estimate: (min, expected, max) of the number of points between the
\* bounds. A histogram of this few points keeps every point as a border and
\* counts the points it holds exactly.
histogram_estimate(from, to) ==
    LET count == Cardinality({p \in histogram : value_above(p[1], from) /\ value_below(p[1], to)})
    IN  <<count, count, count>>

\* Histogram::get_range_by_size: the smallest upper bound whose range from
\* `from` is expected to hold at least range_size points, Unbounded when the
\* histogram is exhausted.
get_range_by_size(from, range_size) ==
    LET reach == {v \in NumVals :
                    /\ \E p \in histogram : p[1] = v
                    /\ value_above(v, from)
                    /\ histogram_estimate(from, Included(v))[2] >= range_size}
    IN  IF reach = {} THEN Unbounded
        ELSE Included(CHOOSE v \in reach : \A w \in reach : v <= w)

\* stat_tools::estimate_multi_value_selection_cardinality, to first order: the
\* selected values divided by the values per point.
estimate_multi_value_selection_cardinality(points, total_values, selection) ==
    IF total_values = 0 THEN 0 ELSE (selection * points) \div total_values

\* CardinalityEstimation::exact
exact(count) == [min |-> count, exp |-> count, max |-> count]

\* NumericIndexInner::range_cardinality
range_cardinality(range) ==
    IF max_values_per_point = 0 THEN exact(0)
    ELSE
    LET lbound == IF is_some(range.lte) THEN Included(range.lte[1])
                  ELSE IF is_some(range.lt) THEN Excluded(range.lt[1])
                  ELSE Unbounded
        gbound == IF is_some(range.gte) THEN Included(range.gte[1])
                  ELSE IF is_some(range.gt) THEN Excluded(range.gt[1])
                  ELSE Unbounded
        histogram_estimation == histogram_estimate(gbound, lbound)
        min_estimation == histogram_estimation[1]
        max_estimation == histogram_estimation[3]
        total_values == total_unique_values_count
        expected_min ==
            max(min_estimation \div max_values_per_point,
                max(min(1, min_estimation),
                    saturating_sub(min_estimation, total_values - get_points_count)))
        expected_max == min(get_points_count, max_estimation)
        estimation == estimate_multi_value_selection_cardinality(
                        get_points_count, total_values, histogram_estimation[2])
    IN  [min |-> expected_min,
         exp |-> min(expected_max, max(estimation, expected_min)),
         max |-> expected_max]

\* One pass of the loop of payload_blocks that never emits the single
\* all-covering block.
push_block_no_single(payload_conditions, pre_lower_bound, upper_bound) ==
    IF is_some(pre_lower_bound)
    THEN LET range ==
                [lt |-> IF upper_bound[1] = "Excluded" THEN Some(upper_bound[2]) ELSE None,
                 gt |-> IF pre_lower_bound[1][1] = "Excluded"
                        THEN Some(pre_lower_bound[1][2]) ELSE None,
                 gte |-> IF pre_lower_bound[1][1] = "Included"
                         THEN Some(pre_lower_bound[1][2]) ELSE None,
                 lte |-> IF upper_bound[1] = "Included" THEN Some(upper_bound[2]) ELSE None]
         IN  Append(payload_conditions,
                    [condition |-> range, cardinality |-> range_cardinality(range).exp])
    ELSE payload_conditions

\* The part of the loop of payload_blocks that pushes a block: the range
\* between the previous pass's lower bound and this pass's upper bound, or the
\* single block of all points when the first pass is already unbounded.
push_block(payload_conditions, pre_lower_bound, upper_bound) ==
    IF is_some(pre_lower_bound)
    THEN LET range ==
                [lt |-> IF upper_bound[1] = "Excluded" THEN Some(upper_bound[2]) ELSE None,
                 gt |-> IF pre_lower_bound[1][1] = "Excluded"
                        THEN Some(pre_lower_bound[1][2]) ELSE None,
                 gte |-> IF pre_lower_bound[1][1] = "Included"
                         THEN Some(pre_lower_bound[1][2]) ELSE None,
                 lte |-> IF upper_bound[1] = "Included" THEN Some(upper_bound[2]) ELSE None]
         IN  Append(payload_conditions,
                    [condition |-> range, cardinality |-> range_cardinality(range).exp])
    ELSE IF upper_bound = Unbounded
         THEN Append(payload_conditions,
                     [condition |-> [lt |-> None, gt |-> None, gte |-> None, lte |-> None],
                      cardinality |-> get_points_count])
         ELSE payload_conditions

\* The loop of payload_blocks, from the pass that starts at lower_bound.
RECURSIVE payload_blocks_loop(_, _, _, _)
payload_blocks_loop(lower_bound, pre_lower_bound, payload_conditions, range_size) ==
    LET upper_bound == get_range_by_size(lower_bound, range_size)
        pushed == push_block(payload_conditions, pre_lower_bound, upper_bound)
    IN  IF upper_bound = Unbounded THEN pushed
        ELSE payload_blocks_loop(Excluded(upper_bound[2]), Some(lower_bound),
                                 pushed, range_size)

\* (threshold as f64 * value_per_point) as usize: the quotient of two zero
\* counts is NaN, which casts to 0.
effective_threshold(threshold) ==
    IF get_points_count = 0 THEN 0
    ELSE (threshold * total_unique_values_count) \div get_points_count

MaxThreshold == 2   \* payload_blocks is asked for thresholds 0..MaxThreshold

\* PayloadFieldIndex::payload_blocks of NumericIndexInner
payload_blocks(threshold) ==
    /\ index_at_rest
    /\ num_out' = [op |-> "payload_blocks", arg |-> <<threshold>>, ok |-> TRUE,
                   ret |-> payload_blocks_loop(Unbounded, None, <<>>,
                                               effective_threshold(threshold) \div 2)]
    /\ UNCHANGED <<variant, points_map, histogram, blocks_loop>>
    /\ UNCHANGED outside_numeric_index

\* estimate_points whose mutable variant subtracts the ids also when the
\* sub-map holds a single key.
estimate_points_no_single(value) ==
    LET keys == orderable_values_range(Included(Point_new(value, PointOffsetType_MIN)),
                                       Included(Point_new(value, PointOffsetType_MAX)))
        range_size == Len(keys)
    IN  IF variant = "Mutable"
        THEN IF range_size = 0 THEN 0
             ELSE keys[range_size][2] - keys[1][2]
        ELSE IF range_size = 0 THEN 0
             ELSE max(1, (2 * range_size * get_points_count + total_unique_values_count)
                            \div (2 * total_unique_values_count))

\* payload_blocks up to its loop: the bounds start unbounded, the block list
\* empty, and every pass asks the histogram for effective_threshold / 2 values.
payload_blocks_enter(threshold) ==
    /\ index_at_rest
    /\ blocks_loop' = Some([threshold |-> threshold,
                            range_size |-> effective_threshold(threshold) \div 2,
                            lower_bound |-> Unbounded,
                            pre_lower_bound |-> None,
                            payload_conditions |-> <<>>])
    /\ UNCHANGED <<variant, points_map, histogram, num_out>>
    /\ UNCHANGED outside_numeric_index

\* A pass of the loop that continues from the bound it started at.
payload_blocks_pass_stuck ==
    /\ blocks_loop # None
    /\ \E loop \in {blocks_loop[1]} :
       \E upper_bound \in {get_range_by_size(loop.lower_bound, loop.range_size)} :
       \E pushed \in {push_block(loop.payload_conditions, loop.pre_lower_bound, upper_bound)} :
           IF upper_bound = Unbounded
           THEN /\ blocks_loop' = None
                /\ num_out' = [op |-> "payload_blocks", arg |-> <<loop.threshold>>,
                               ok |-> TRUE, ret |-> pushed]
           ELSE /\ blocks_loop' = Some([loop EXCEPT
                                            !.pre_lower_bound = Some(loop.lower_bound),
                                            !.payload_conditions = pushed])
                /\ UNCHANGED num_out
    /\ UNCHANGED <<variant, points_map, histogram>>
    /\ UNCHANGED outside_numeric_index

\* One pass of the loop of payload_blocks: the histogram gives the upper
\* bound, a block is pushed, and the loop breaks on Unbounded or goes on from
\* Excluded(upper bound); after the loop the blocks are returned.
payload_blocks_pass ==
    /\ blocks_loop # None
    /\ \E loop \in {blocks_loop[1]} :
       \E upper_bound \in {get_range_by_size(loop.lower_bound, loop.range_size)} :
       \E pushed \in {push_block(loop.payload_conditions, loop.pre_lower_bound, upper_bound)} :
           IF upper_bound = Unbounded
           THEN /\ blocks_loop' = None
                /\ num_out' = [op |-> "payload_blocks", arg |-> <<loop.threshold>>,
                               ok |-> TRUE, ret |-> pushed]
           ELSE /\ blocks_loop' = Some([loop EXCEPT
                                            !.lower_bound = Excluded(upper_bound[2]),
                                            !.pre_lower_bound = Some(loop.lower_bound),
                                            !.payload_conditions = pushed])
                /\ UNCHANGED num_out
    /\ UNCHANGED <<variant, points_map, histogram>>
    /\ UNCHANGED outside_numeric_index

\* NumericIndexInner::estimate_points. The mutable variant reads the two ends
\* of the value's sub-map; the other two divide the number of keys by the
\* average number of values per point (exact arithmetic stands for f32) and
\* round half away from zero, with a minimum of 1.
estimate_points(value) ==
    LET keys == orderable_values_range(Included(Point_new(value, PointOffsetType_MIN)),
                                       Included(Point_new(value, PointOffsetType_MAX)))
        range_size == Len(keys)
    IN  IF variant = "Mutable"
        THEN IF range_size = 0 THEN 0
             ELSE IF range_size = 1 THEN 1
             ELSE keys[range_size][2] - keys[1][2]
        ELSE IF range_size = 0 THEN 0
             ELSE max(1, (2 * range_size * get_points_count + total_unique_values_count)
                            \div (2 * total_unique_values_count))

\* PayloadFieldIndex::estimate_cardinality of NumericIndexInner
estimate_cardinality(condition) ==
    /\ index_at_rest
    /\ num_out' =
        [op |-> "estimate_cardinality", arg |-> condition, ok |-> TRUE,
         ret |-> IF is_some(condition.match)
                 THEN Some(exact(estimate_points(condition.match[1])))
                 ELSE IF is_some(condition.range)
                      THEN Some(range_cardinality(condition.range[1]))
                      ELSE None]
    /\ UNCHANGED <<variant, points_map, histogram, blocks_loop>>
    /\ UNCHANGED outside_numeric_index

\* No map index is open beside the numeric index.
map_index_absent ==
    /\ config_file = None
    /\ value_to_points = <<>>
    /\ point_to_values = <<>>
    /\ deleted_mmap = [len |-> 0, ones |-> {}]
    /\ dir_files = {}
    /\ storage = FALSE
    /\ pending_updates = <<>>
    /\ deleted_count = 0
    /\ total_key_value_pairs = 0
    /\ values = <<>>
    /\ removed = {}
    /\ lastOp = "new"
    /\ threads_idle

\* An index of any variant as it is after new_gridstore / new_mmap and load.
InitNumeric ==
    /\ codec_absent
    /\ variant \in Variants
    /\ points_map \in SUBSET Points
    /\ histogram = points_map
    /\ blocks_loop = None
    /\ num_out = no_call
    /\ map_index_absent
    /\ builder_absent

\* The iterators of an index of any variant and any contents.
NextNumeric ==
    \/ \E condition \in Conditions : filter(condition)
    \/ \E range \in Ranges : stream_range(range)

SpecNumeric == InitNumeric /\ [][NextNumeric]_vars

\* The numeric index under its mutations.
NextMutations ==
    \/ \E ty \in ValueTypes, id \in NumIds, vals \in SUBSET NumVals : add_many(ty, id, vals)
    \/ \E idx \in NumIds : numeric_remove_point(idx)

SpecMutations == InitNumeric /\ [][NextMutations]_vars

\* The numeric index under mutation and the estimate of a value match.
NextPoints ==
    \/ \E ty \in ValueTypes, id \in NumIds, vals \in SUBSET NumVals : add_many(ty, id, vals)
    \/ \E idx \in NumIds : numeric_remove_point(idx)
    \/ \E condition \in {c \in Conditions : is_some(c.match)} : estimate_cardinality(condition)

SpecPoints == InitNumeric /\ [][NextPoints]_vars

\* The numeric index under mutation and payload_blocks.
NextBlocks ==
    \/ \E ty \in ValueTypes, id \in NumIds, vals \in SUBSET NumVals : add_many(ty, id, vals)
    \/ \E idx \in NumIds : numeric_remove_point(idx)
    \/ \E threshold \in 0..MaxThreshold : payload_blocks(threshold)

SpecBlocks == InitNumeric /\ [][NextBlocks]_vars

\* The numeric index under mutation and estimate_cardinality.
NextCardinality ==
    \/ \E ty \in ValueTypes, id \in NumIds, vals \in SUBSET NumVals : add_many(ty, id, vals)
    \/ \E idx \in NumIds : numeric_remove_point(idx)
    \/ \E condition \in Conditions : estimate_cardinality(condition)

SpecCardinality == InitNumeric /\ [][NextCardinality]_vars

\* payload_blocks pass by pass on an index of any variant and any contents.
\* The thread that called payload_blocks keeps running, so a pass that can be
\* taken is taken.
NextLoop ==
    \/ \E threshold \in 0..MaxThreshold : payload_blocks_enter(threshold)
    \/ payload_blocks_pass

SpecLoop == InitNumeric /\ [][NextLoop]_vars /\ WF_vars(payload_blocks_pass)

\* ---------------------------------------------------------------------------
\* The builders: NumericIndexGridstoreBuilder and NumericIndexMmapBuilder.

MaxPayload == 2     \* a payload carries 0..MaxPayload extractable values

\* The values that get_values extracts from the payload of one add_point, in
\* the order of the payload; a value may occur more than once.
Payloads == SeqsUpTo(NumVals, MaxPayload)

\* InMemoryNumericIndex::remove_point and add_many_to_list on the points of an
\* index passed as an argument.
in_memory_remove_point(points, idx) == {p \in points : p[2] # idx}
in_memory_add_many_to_list(points, idx, flatten_values) ==
    points \cup {Point_new(flatten_values[i], idx) : i \in DOMAIN flatten_values}

\* ValueIndexer::add_point of NumericIndex on a mutable index: the point is
\* removed, then the values of the payload are added with add_many.
ValueIndexer_add_point(points, id, flatten_values) ==
    in_memory_add_many_to_list(in_memory_remove_point(points, id), id, flatten_values)

\* The history of the add_points that a builder applied.
applied(last, id, flatten_values) == (id :> Elems(flatten_values)) @@ last

\* NumericIndexGridstoreBuilder::init that stores a new index whatever the
\* builder holds.
GridstoreBuilder_init_replace ==
    /\ builder_live
    /\ \E created \in BOOLEAN :
          IF created
          THEN /\ gridstore_index' = Some({})
               /\ builder_last' = <<>>
               /\ builder_out' = [op |-> "init", arg |-> <<>>, ok |-> "ok", ret |-> None]
          ELSE /\ UNCHANGED <<gridstore_index, builder_last>>
               /\ builder_out' = [op |-> "init", arg |-> <<>>, ok |-> "storage_error", ret |-> None]
    /\ UNCHANGED <<in_memory_index, builder_live>>
    /\ UNCHANGED outside_builder

\* NumericIndexGridstoreBuilder::init: the assertion panics when the builder
\* holds an index; else new_gridstore opens an empty mutable index, or fails
\* and leaves the builder without one.
GridstoreBuilder_init ==
    /\ builder_live
    /\ IF is_some(gridstore_index)
       THEN /\ UNCHANGED <<gridstore_index, builder_last>>
            /\ builder_out' = [op |-> "init", arg |-> <<>>, ok |-> "panic", ret |-> None]
       ELSE \E created \in BOOLEAN :
               IF created
               THEN /\ gridstore_index' = Some({})
                    /\ builder_last' = <<>>
                    /\ builder_out' = [op |-> "init", arg |-> <<>>, ok |-> "ok", ret |-> None]
               ELSE /\ UNCHANGED <<gridstore_index, builder_last>>
                    /\ builder_out' = [op |-> "init", arg |-> <<>>, ok |-> "storage_error", ret |-> None]
    /\ UNCHANGED <<in_memory_index, builder_live>>
    /\ UNCHANGED outside_builder

\* NumericIndexGridstoreBuilder::add_point
GridstoreBuilder_add_point(id, flatten_values) ==
    /\ builder_live
    /\ IF gridstore_index = None
       THEN /\ UNCHANGED <<gridstore_index, builder_last>>
            /\ builder_out' = [op |-> "add_point", arg |-> <<id, flatten_values>>, ok |-> "service_error", ret |-> None]
       ELSE /\ gridstore_index' =
                   Some(ValueIndexer_add_point(gridstore_index[1], id, flatten_values))
            /\ builder_last' = applied(builder_last, id, flatten_values)
            /\ builder_out' = [op |-> "add_point", arg |-> <<id, flatten_values>>, ok |-> "ok", ret |-> None]
    /\ UNCHANGED <<in_memory_index, builder_live>>
    /\ UNCHANGED outside_builder

\* NumericIndexGridstoreBuilder::finalize: takes the index out of the builder,
\* flushes it and returns it; the flusher may fail. finalize consumes the builder.
GridstoreBuilder_finalize ==
    /\ builder_live
    /\ builder_live' = FALSE
    /\ IF gridstore_index = None
       THEN /\ UNCHANGED gridstore_index
            /\ builder_out' = [op |-> "finalize", arg |-> <<>>, ok |-> "service_error", ret |-> None]
       ELSE /\ gridstore_index' = None
            /\ \E flushed \in BOOLEAN :
                  builder_out' =
                      IF flushed
                      THEN [op |-> "finalize", arg |-> <<>>, ok |-> "ok",
                            ret |-> Some([variant |-> "Mutable",
                                          points |-> gridstore_index[1]])]
                      ELSE [op |-> "finalize", arg |-> <<>>, ok |-> "storage_error", ret |-> None]
    /\ UNCHANGED <<in_memory_index, builder_last>>
    /\ UNCHANGED outside_builder

NextGridstoreBuilder ==
    \/ GridstoreBuilder_init
    \/ \E id \in NumIds, flatten_values \in Payloads :
          GridstoreBuilder_add_point(id, flatten_values)
    \/ GridstoreBuilder_finalize

SpecGridstoreBuilder == Init /\ [][NextGridstoreBuilder]_vars

\* NumericIndexMmapBuilder::init
MmapBuilder_init ==
    /\ builder_live
    /\ builder_out' = [op |-> "init", arg |-> <<>>, ok |-> "ok", ret |-> None]
    /\ UNCHANGED <<gridstore_index, in_memory_index, builder_live, builder_last>>
    /\ UNCHANGED outside_builder

\* NumericIndexMmapBuilder::add_point that adds the values to the values the
\* index holds for the point.
MmapBuilder_add_point_keep(id, flatten_values) ==
    /\ builder_live
    /\ in_memory_index' = in_memory_add_many_to_list(in_memory_index, id, flatten_values)
    /\ builder_last' = applied(builder_last, id, flatten_values)
    /\ builder_out' = [op |-> "add_point", arg |-> <<id, flatten_values>>, ok |-> "ok", ret |-> None]
    /\ UNCHANGED <<gridstore_index, builder_live>>
    /\ UNCHANGED outside_builder

\* NumericIndexMmapBuilder::add_point
MmapBuilder_add_point(id, flatten_values) ==
    /\ builder_live
    /\ in_memory_index' =
           in_memory_add_many_to_list(in_memory_remove_point(in_memory_index, id),
                                      id, flatten_values)
    /\ builder_last' = applied(builder_last, id, flatten_values)
    /\ builder_out' = [op |-> "add_point", arg |-> <<id, flatten_values>>, ok |-> "ok", ret |-> None]
    /\ UNCHANGED <<gridstore_index, builder_live>>
    /\ UNCHANGED outside_builder

\* NumericIndexMmapBuilder::finalize: MmapNumericIndex::build writes the
\* in-memory index to the path and returns the mmap index, or fails.
\* finalize consumes the builder.
MmapBuilder_finalize ==
    /\ builder_live
    /\ builder_live' = FALSE
    /\ \E built \in BOOLEAN :
          builder_out' =
              IF built
              THEN [op |-> "finalize", arg |-> <<>>, ok |-> "ok",
                    ret |-> Some([variant |-> "Mmap", points |-> in_memory_index])]
              ELSE [op |-> "finalize", arg |-> <<>>, ok |-> "storage_error", ret |-> None]
    /\ UNCHANGED <<gridstore_index, in_memory_index, builder_last>>
    /\ UNCHANGED outside_builder

NextMmapBuilder ==
    \/ MmapBuilder_init
    \/ \E id \in NumIds, flatten_values \in Payloads :
          MmapBuilder_add_point(id, flatten_values)
    \/ MmapBuilder_finalize

SpecMmapBuilder == Init /\ [][NextMmapBuilder]_vars

\* C13 Mutability: add_many on the Immutable or Mmap variant returns an error
\* and leaves the contents as they were, for every value type; add_many
\* returns Ok only on the Mutable variant; remove_point returns Ok on all
\* three variants.
MutabilityEnforced ==
    /\ num_out.op = "add_many" =>
        /\ num_out.ok <=> variant = "Mutable"
        /\ ~num_out.ok => points_map = num_out.ret
    /\ num_out.op = "remove_point" => num_out.ok

\* C13 witness: a rejected add_many of UUIDs on an Mmap index of one point.
MutabilityEnforcedWitness ==
    /\ num_out.op = "add_many" /\ ~num_out.ok
    /\ variant = "Mmap"
    /\ num_out.arg = <<"Uuid">>
    /\ Cardinality(points_map) = 1

\* ---------------------------------------------------------------------------
\* The key codec: trait Encodable for i64, u128, f64 and DateTime.

CodecMax == 2       \* integers and microsecond timestamps are -CodecMax..CodecMax
CodecMaxId == 1     \* the ids of encoded keys are 0..CodecMaxId

\* Rust's / and % on integers truncate toward zero.
trunc_div(a, b) == IF a >= 0 THEN a \div b ELSE 0 - ((0 - a) \div b)
trunc_rem(a, b) == a - b * trunc_div(a, b)

\* The n big-endian bytes of an integer in two's complement.
RECURSIVE to_be_bytes(_, _)
to_be_bytes(v, n) ==
    IF n = 0 THEN <<>> ELSE Append(to_be_bytes(v \div 256, n - 1), v % 256)

\* The integer of big-endian bytes: unsigned, and signed in two's complement.
RECURSIVE from_be_bytes(_)
from_be_bytes(bytes) ==
    IF bytes = <<>> THEN 0
    ELSE from_be_bytes(SubSeq(bytes, 1, Len(bytes) - 1)) * 256 + bytes[Len(bytes)]
from_be_bytes_signed(bytes) ==
    IF bytes[1] >= 128
    THEN from_be_bytes(<<bytes[1] - 256>> \o Tail(bytes))
    ELSE from_be_bytes(bytes)

flip_sign_bit(bytes) == <<(bytes[1] + 128) % 256>> \o Tail(bytes)
invert_bits(bytes) == [k \in 1..Len(bytes) |-> 255 - bytes[k]]

\* Byte-lexicographic order of two keys of the same length.
bytes_lt(x, y) ==
    \E k \in 1..Len(x) : x[k] < y[k] /\ \A l \in 1..(k - 1) : x[l] = y[l]

\* key_encoding: i64 flips the sign bit and is stored big-endian, u128 is
\* stored big-endian, each followed by the id big-endian.
encode_i64_key_ascending(val, id) == flip_sign_bit(to_be_bytes(val, 8)) \o to_be_bytes(id, 4)
decode_i64_key_ascending(key) ==
    <<from_be_bytes(SubSeq(key, 9, 12)), from_be_bytes_signed(flip_sign_bit(SubSeq(key, 1, 8)))>>
encode_u128_key_ascending(val, id) == to_be_bytes(val, 16) \o to_be_bytes(id, 4)
decode_u128_key_ascending(key) ==
    <<from_be_bytes(SubSeq(key, 17, 20)), from_be_bytes(SubSeq(key, 1, 16))>>

\* f64 values are their IEEE-754 bits, big-endian.
F64_NAN == <<127, 248, 0, 0, 0, 0, 0, 0>>
F64_NEG_INFINITY == <<255, 240, 0, 0, 0, 0, 0, 0>>
F64_NEG_ONE == <<191, 240, 0, 0, 0, 0, 0, 0>>
F64_NEG_ZERO == <<128, 0, 0, 0, 0, 0, 0, 0>>
F64_ZERO == <<0, 0, 0, 0, 0, 0, 0, 0>>
F64_ONE == <<63, 240, 0, 0, 0, 0, 0, 0>>
F64_INFINITY == <<127, 240, 0, 0, 0, 0, 0, 0>>
Floats == {F64_NAN, F64_NEG_INFINITY, F64_NEG_ONE, F64_NEG_ZERO, F64_ZERO, F64_ONE,
           F64_INFINITY}

sign_bit(x) == x[1] >= 128
magnitude(x) == <<x[1] % 128>> \o Tail(x)
is_nan(x) == bytes_lt(F64_INFINITY, magnitude(x))

\* f64::partial_cmp of two numbers that are not NaN: -0.0 equals +0.0.
partial_cmp(x, y) ==
    IF magnitude(x) = F64_ZERO /\ magnitude(y) = F64_ZERO THEN "Equal"
    ELSE IF sign_bit(x) /\ ~sign_bit(y) THEN "Less"
    ELSE IF ~sign_bit(x) /\ sign_bit(y) THEN "Greater"
    ELSE IF x = y THEN "Equal"
    ELSE IF sign_bit(x) <=> bytes_lt(magnitude(y), magnitude(x)) THEN "Less"
    ELSE "Greater"

\* key_encoding: f64 with the sign bit set has all bits inverted, otherwise the
\* sign bit flipped; NaN takes the key below every number.
encode_f64_key_ascending(val, id) ==
    (IF is_nan(val) THEN F64_ZERO
     ELSE IF sign_bit(val) THEN invert_bits(val) ELSE flip_sign_bit(val))
        \o to_be_bytes(id, 4)
decode_f64_key_ascending(key) ==
    LET prefix == SubSeq(key, 1, 8)
    IN  <<from_be_bytes(SubSeq(key, 9, 12)),
          IF prefix = F64_ZERO THEN F64_NAN
          ELSE IF prefix[1] >= 128 THEN flip_sign_bit(prefix) ELSE invert_bits(prefix)>>

\* A DateTime is chrono's <<seconds, nanoseconds of the second>>.
\* DateTimePayloadType::timestamp is its number of microseconds.
UNIX_EPOCH == <<0, 0>>
timestamp(datetime) == datetime[1] * 1000000 + datetime[2] \div 1000
from_micros(micros) == <<micros \div 1000000, (micros % 1000000) * 1000>>

\* `as u32` and the u32 product with 1_000_000 = 15 * 65536 + 16960, on 16-bit
\* limbs <<high, low>>.
as_u32(n) == IF n >= 0 THEN <<n \div 65536, n % 65536>> ELSE <<65535, 65536 + n>>
mul_1000000_overflows(x) ==
    x[1] * 15 > 0 \/ x[1] * 16960 + x[2] * 15 + (x[2] * 16960) \div 65536 >= 65536
mul_1000000_wrapping(x) ==
    <<(x[1] * 16960 + x[2] * 15 + (x[2] * 16960) \div 65536) % 65536, (x[2] * 16960) % 65536>>

\* chrono DateTime::from_timestamp: None unless the nanoseconds are below
\* 10^9 = 15258 * 65536 + 51712 (values from there on are a leap second at
\* best, which no product with 1_000_000 is).
from_timestamp(secs, nsecs) ==
    IF nsecs[1] < 15258 \/ (nsecs[1] = 15258 /\ nsecs[2] < 51712)
    THEN Some(<<secs, nsecs[1] * 65536 + nsecs[2]>>)
    ELSE None

\* Encodable::encode_key
encode_key(ty, self, id) ==
    CASE ty = "Int" -> encode_i64_key_ascending(self, id)
      [] ty = "Uuid" -> encode_u128_key_ascending(self, id)
      [] ty = "Float" -> encode_f64_key_ascending(self, id)
      [] ty = "DateTime" -> encode_i64_key_ascending(timestamp(self), id)

\* Encodable::decode_key of DateTime: the outcomes [panicked, id, value] that a
\* build can produce. The u32 product panics on overflow in a build with
\* overflow checks and wraps in one without.
decode_key_DateTime(key) ==
    LET decoded == decode_i64_key_ascending(key)
        secs == trunc_div(decoded[2], 1000)
        millis == as_u32(trunc_rem(decoded[2], 1000))
        datetime == unwrap_or(from_timestamp(secs, mul_1000000_wrapping(millis)), UNIX_EPOCH)
    IN  {[panicked |-> FALSE, id |-> decoded[1], value |-> datetime]}
            \cup (IF mul_1000000_overflows(millis)
                  THEN {[panicked |-> TRUE, id |-> decoded[1], value |-> UNIX_EPOCH]}
                  ELSE {})

\* Encodable::decode_key
decode_key(ty, key) ==
    CASE ty = "Int" ->
            {[panicked |-> FALSE, id |-> decode_i64_key_ascending(key)[1],
              value |-> decode_i64_key_ascending(key)[2]]}
      [] ty = "Uuid" ->
            {[panicked |-> FALSE, id |-> decode_u128_key_ascending(key)[1],
              value |-> decode_u128_key_ascending(key)[2]]}
      [] ty = "Float" ->
            {[panicked |-> FALSE, id |-> decode_f64_key_ascending(key)[1],
              value |-> decode_f64_key_ascending(key)[2]]}
      [] ty = "DateTime" -> decode_key_DateTime(key)

cmp(x, y) == IF x < y THEN "Less" ELSE IF x = y THEN "Equal" ELSE "Greater"

\* Encodable::cmp_encoded
cmp_encoded(ty, self, other) ==
    CASE ty = "Int" -> cmp(self, other)
      [] ty = "Uuid" -> cmp(self, other)
      [] ty = "Float" ->
            IF is_nan(self) /\ is_nan(other) THEN "Equal"
            ELSE IF is_nan(self) THEN "Less"
            ELSE IF is_nan(other) THEN "Greater"
            ELSE partial_cmp(self, other)
      [] ty = "DateTime" -> cmp(timestamp(self), timestamp(other))

\* The values of each type and the inputs of the codec.
CodecIds == 0..CodecMaxId
CodecValues(ty) ==
    CASE ty = "Int" -> (0 - CodecMax)..CodecMax
      [] ty = "Uuid" -> 0..CodecMax
      [] ty = "Float" -> Floats
      [] ty = "DateTime" -> {from_micros(micros) : micros \in (0 - CodecMax)..CodecMax}
                                \cup {from_micros(0 - 1000), from_micros(1000000)}
CodecInputs ==
    UNION {[ty : {ty}, a : CodecValues(ty), i : CodecIds, b : CodecValues(ty), j : CodecIds]
            : ty \in ValueTypes}

Encodable_encode_key ==
    /\ codec_out.keys = None
    /\ codec_out' = [codec_out EXCEPT
            !.keys = Some(<<encode_key(codec_in.ty, codec_in.a, codec_in.i),
                            encode_key(codec_in.ty, codec_in.b, codec_in.j)>>)]
    /\ UNCHANGED codec_in
    /\ UNCHANGED outside_codec

Encodable_decode_key ==
    /\ codec_out.keys # None
    /\ codec_out.back = None
    /\ \E outcome \in decode_key(codec_in.ty, codec_out.keys[1][1]) :
            codec_out' = [codec_out EXCEPT !.back = Some(outcome)]
    /\ UNCHANGED codec_in
    /\ UNCHANGED outside_codec

Encodable_cmp_encoded ==
    /\ codec_out.ord = None
    /\ codec_out' = [codec_out EXCEPT
            !.ord = Some(cmp_encoded(codec_in.ty, codec_in.a, codec_in.b))]
    /\ UNCHANGED codec_in
    /\ UNCHANGED outside_codec

InitCodec ==
    /\ codec_in \in CodecInputs
    /\ codec_out = no_codec_call
    /\ numeric_absent
    /\ map_index_absent
    /\ builder_absent

NextCodec ==
    \/ Encodable_encode_key
    \/ Encodable_decode_key
    \/ Encodable_cmp_encoded

SpecCodec == InitCodec /\ [][NextCodec]_vars

\* C11 Un-opened index: while the directory has no config file the index is
\* the stub without storage and every query gives the empty result: the
\* iterators are empty, the optional results None, check_values_any false,
\* the counts 0, load false; remove_point leaves the stub as it is.
UnopenedIsEmpty ==
    config_file = None =>
        /\ ~storage
        /\ load = FALSE
        /\ \A v \in Keys : get_iterator(v) = <<>> /\ get_count_for_value(v) = None
        /\ iter_values = <<>>
        /\ iter_counts_per_value = <<>>
        /\ iter_values_map = <<>>
        /\ \A idx \in PointIds :
            /\ get_values(idx) = None
            /\ values_count(idx) = None
            /\ \A check_fn \in SUBSET Keys : ~check_values_any(idx, check_fn)
        /\ get_indexed_points = 0
        /\ get_unique_values_count = 0
        /\ get_values_count = 0
        /\ index_state = <<FALSE, <<>>, 0, 0>>

\* C11 witness: the stub after two remove_point calls.
UnopenedIsEmptyWitness ==
    /\ config_file = None /\ ~storage
    /\ lastOp = "remove_point"
    /\ Cardinality(removed) = 2

\* C12 Lifecycle on the un-opened index: on the stub (no config file, no
\* backing files) flusher, populate, clear_cache and wipe all return Ok.
UnopenedLifecycleOk ==
    (config_file = None /\ ~storage) =>
        lastOp \notin {"flusher_failed", "populate_failed",
                       "clear_cache_failed", "wipe_failed"}

\* The interval between two translated bounds is invalid: start > end, or
\* start = end with both bounds exclusive.
invalid_interval(bounds) ==
    /\ bounds[1] # Unbounded
    /\ bounds[2] # Unbounded
    /\ \/ Point_lt(bounds[2][2], bounds[1][2])
       \/ bounds[1][2] = bounds[2][2] /\ bounds[1][1] = "Excluded" /\ bounds[2][1] = "Excluded"

\* C14 Invalid intervals: filter and stream_range never panic, whatever the
\* range; for a range whose translated bounds form an invalid interval filter
\* returns Some(empty iterator) and stream_range an empty iterator, on every
\* variant.
InvalidIntervalIsEmpty ==
    /\ num_out.op = "filter" =>
        /\ num_out.ok
        /\ (is_some(num_out.arg.range)
                /\ invalid_interval(as_index_key_bounds(num_out.arg.range[1])))
            => num_out.ret = Some(<<>>)
    /\ num_out.op = "stream_range" =>
        /\ num_out.ok
        /\ invalid_interval(as_index_key_bounds(num_out.arg)) => num_out.ret = <<>>

\* C14 witness: filter of gt = 1, lt = 0 on an index that holds points.
InvalidIntervalIsEmptyWitness ==
    /\ num_out.op = "filter"
    /\ points_map # {}
    /\ num_out.arg.range = Some([lt |-> Some(0), gt |-> Some(1), gte |-> None, lte |-> None])
    /\ num_out.ret = Some(<<>>)

\* types::Range::check_range: the number satisfies every bound that is set.
check_range(range, number) ==
    /\ is_some(range.lt) => number < range.lt[1]
    /\ is_some(range.gt) => number > range.gt[1]
    /\ is_some(range.gte) => number >= range.gte[1]
    /\ is_some(range.lte) => number <= range.lte[1]

\* The value domain around the values an index can hold.
Domain == (0 - 1)..(NumMaxVal + 1)

\* C15 Block coverage: for any threshold and any index state the ranges
\* returned by payload_blocks cover the whole value domain: every value
\* satisfies at least one of them, the first block has no lower bound and the
\* last block no upper bound.
BlockCoverage ==
    num_out.op = "payload_blocks" =>
        LET blocks == num_out.ret
        IN  /\ blocks # <<>>
            /\ \A x \in Domain : \E i \in 1..Len(blocks) : check_range(blocks[i].condition, x)
            /\ blocks[1].condition.gt = None /\ blocks[1].condition.gte = None
            /\ blocks[Len(blocks)].condition.lt = None
            /\ blocks[Len(blocks)].condition.lte = None

\* C15 witness: payload_blocks returned two blocks with a bound between them.
BlockCoverageWitness ==
    /\ num_out.op = "payload_blocks"
    /\ Len(num_out.ret) = 2
    /\ num_out.ret[1].condition.lte # None
    /\ num_out.ret[2].condition.gt # None

\* C16 Block disjointness: no value satisfies the ranges of two different
\* blocks returned by payload_blocks.
BlockDisjointness ==
    num_out.op = "payload_blocks" =>
        \A i, j \in 1..Len(num_out.ret) :
            i # j => \A x \in Domain :
                ~(check_range(num_out.ret[i].condition, x)
                    /\ check_range(num_out.ret[j].condition, x))

\* C17 Cardinality bounds: whenever estimate_cardinality(c) and filter(c) are
\* both Some, the number of distinct point ids that filter(c) yields lies
\* between the estimate's min and max; for a UUID match the estimate is exact.
CardinalityBounds ==
    (num_out.op = "estimate_cardinality"
        /\ is_some(num_out.ret)
        /\ is_some(filter_output(num_out.arg).ret)) =>
        LET yielded == Cardinality(Elems(filter_output(num_out.arg).ret[1]))
        IN  /\ num_out.ret[1].min <= yielded
            /\ yielded <= num_out.ret[1].max

\* Two values of a type are the same value: for f64 the same bits or both NaN.
same_value(ty, x, y) == IF ty = "Float" /\ is_nan(x) /\ is_nan(y) THEN TRUE ELSE x = y

\* C18 Round-trip codec: for every value type and every (value, id),
\* decode_key(encode_key(value, id)) returns (id, value) and does not panic;
\* for DateTime the date-time rebuilt from the encoded microsecond timestamp
\* is the original one, also before the epoch.
RoundTripCodec ==
    codec_out.back # None =>
        /\ ~codec_out.back[1].panicked
        /\ codec_out.back[1].id = codec_in.i
        /\ same_value(codec_in.ty, codec_out.back[1].value, codec_in.a)

\* C19 Order preservation: for every value type the bytes of encode_key(a, i)
\* are less than those of encode_key(b, j) exactly if (a, i) < (b, j) with
\* the values ordered by cmp_encoded and ties broken by the id.
OrderPreservation ==
    (codec_out.keys # None /\ codec_out.ord # None) =>
        (bytes_lt(codec_out.keys[1][1], codec_out.keys[1][2])
            <=> (\/ codec_out.ord[1] = "Less"
                 \/ codec_out.ord[1] = "Equal" /\ codec_in.i < codec_in.j))

\* C20 Read-your-tombstone under concurrent flush: with the flusher closure
\* draining in the background, in every state after remove_point(id) has
\* returned, a reader finds id deleted: get_values(id) is None,
\* check_values_any(id, _) is false and get_iterator yields id for no value;
\* the tombstone is in the overlay or in deleted.bin at every step.
ReadYourTombstone ==
    \A id \in removed :
        /\ get_values(id) = None
        /\ \A check_fn \in SUBSET Keys : ~check_values_any(id, check_fn)
        /\ \A v \in Keys : id \notin Elems(get_iterator(v))
        /\ (storage /\ id < deleted_mmap.len) =>
                (id \in DOMAIN pending_updates \/ id \in deleted_mmap.ones)

\* C20 witness: the closure is half-way through the overlay: one removed
\* point with values is already in deleted.bin and no longer in the overlay,
\* another is still only in the overlay, and the writer is inside a further
\* remove_point.
ReadYourTombstoneWitness ==
    /\ flusher_pc = "draining"
    /\ writer_pc # None
    /\ \E id \in removed \cap BuiltIds :
        /\ ValuesOf(id) # {}
        /\ id \in deleted_mmap.ones
        /\ id \notin DOMAIN pending_updates
    /\ \E id \in removed \cap BuiltIds :
        /\ id \in DOMAIN pending_updates
        /\ id \notin deleted_mmap.ones

\* The ids the buffered wrapper reports as deleted for the given mmap and overlay.
tombstoned_set(bitslice, updates) ==
    {i \in drained(bitslice, updates).ones : i < bitslice.len}

\* C21 Tombstones survive flush and reopen: an open that follows a completed
\* run of the flusher closure yields an index with the same tombstoned set
\* and the same deleted_count as before; after every open, also one that
\* lost removals not yet flushed, deleted_count is the number of bits set in
\* deleted.bin.
TombstonesSurviveReopen ==
    [][lastOp' = "open" =>
        /\ storage' => deleted_count' = count_ones(deleted_mmap')
        /\ lastOp = "flusher" =>
            /\ deleted_count' = deleted_count
            /\ tombstoned_set(deleted_mmap', pending_updates')
                    = tombstoned_set(deleted_mmap, pending_updates)]_vars

\* C21 witness: an index opened again whose bitmap holds the flushed removals
\* of a point with values and of an id in the padding of deleted.bin, next to
\* a point that was empty at build.
TombstonesSurviveReopenWitness ==
    /\ lastOp = "open"
    /\ EmptyAtBuild # {}
    /\ \E id \in removed \cap BuiltIds : ValuesOf(id) # {} /\ id \in deleted_mmap.ones
    /\ \E id \in removed \ BuiltIds : id \in deleted_mmap.ones
    /\ deleted_count = 3

\* C22 estimate_points is 0 exactly for the values that no indexed
\* (value, id) key carries and at least 1 for every value that a key carries,
\* on all three variants; estimate_cardinality reports it for a match.
EstimatePointsPositive ==
    /\ \A value \in NumVals :
        /\ estimate_points(value) = 0 <=> ~(\E p \in points_map : p[1] = value)
        /\ (\E p \in points_map : p[1] = value) => estimate_points(value) >= 1
    /\ (num_out.op = "estimate_cardinality" /\ is_some(num_out.arg.match)) =>
            num_out.ret = Some(exact(estimate_points(num_out.arg.match[1])))

\* C22 witness: the estimate 1 for a value that a single key of a mutable
\* index carries, next to another value on the same point.
EstimatePointsPositiveWitness ==
    /\ num_out.op = "estimate_cardinality"
    /\ variant = "Mutable"
    /\ is_some(num_out.arg.match)
    /\ Cardinality({p \in points_map : p[1] = num_out.arg.match[1]}) = 1
    /\ Cardinality(points_map) = 2
    /\ get_points_count = 1
    /\ num_out.ret = Some(exact(1))

\* C23 Range-bound precedence: for a range that sets both gt and gte the
\* start bound is the gte one, for a range that sets both lt and lte the end
\* bound is the lte one; stream_range yields the keys of that interval, the
\* same interval for which range_cardinality asks the histogram.
RangeBoundPrecedence ==
    (num_out.op = "stream_range" /\ num_out.ok) =>
        LET range == num_out.arg
            start == IF is_some(range.gte) THEN Included(range.gte[1])
                     ELSE IF is_some(range.gt) THEN Excluded(range.gt[1])
                     ELSE Unbounded
            end == IF is_some(range.lte) THEN Included(range.lte[1])
                   ELSE IF is_some(range.lt) THEN Excluded(range.lt[1])
                   ELSE Unbounded
        IN  /\ Elems(num_out.ret) =
                    {p \in points_map : value_above(p[1], start) /\ value_below(p[1], end)}
            /\ max_values_per_point > 0 =>
                    range_cardinality(range).max
                        = min(get_points_count, histogram_estimate(start, end)[3])

\* C24 range_cardinality is well formed: in every index state and for the
\* triple its histogram returns the estimate has min <= exp <= max and
\* max <= points count, and the subtraction of the points count from the
\* number of values does not underflow.
RangeCardinalityWellFormed ==
    (num_out.op = "estimate_cardinality" /\ num_out.arg.match = None
        /\ is_some(num_out.arg.range)) =>
        LET estimation == num_out.ret[1]
        IN  /\ estimation.min <= estimation.exp
            /\ estimation.exp <= estimation.max
            /\ estimation.max <= get_points_count
            /\ total_unique_values_count >= get_points_count

\* C25 Crash coherence of build: whatever step an interrupted build stopped
\* after, an open that returns an index with storage returns a completely
\* built one: all files are there with the contents of the build input and
\* every point without values is tombstoned and counted.
CrashCoherentBuild ==
    (lastOp = "open" /\ storage) =>
        /\ built_files \subseteq dir_files
        /\ value_to_points = builder_values_to_points(values)
        /\ point_to_values = values
        /\ \A id \in EmptyAtBuild : Tombstoned(id) /\ get_values(id) = None
        /\ deleted_count = Cardinality(EmptyAtBuild)

\* The order of the lower bounds of the loop: Unbounded is below every bound,
\* Excluded(v) is below Excluded(w) for v < w.
bound_advances(from, to) ==
    /\ to # Unbounded
    /\ from = Unbounded \/ from[2] < to[2] \/ (from[2] = to[2] /\ from[1] = "Included"
                                                  /\ to[1] = "Excluded")

last_points(last) == UNION {{Point_new(v, id) : v \in last[id]} : id \in DOMAIN last}

\* C28 Gridstore builder protocol: add_point and finalize on a builder without
\* an index return a service error and leave it without an index; init on a
\* builder that holds an index panics and leaves that index as it is; the
\* index of the builder holds the add_points applied since init, and a
\* finalize that succeeds returns exactly that index.
GridstoreBuilderProtocol ==
    /\ [](is_some(gridstore_index) => gridstore_index[1] = last_points(builder_last))
    /\ [](builder_out.op = "finalize" /\ builder_out.ok = "ok" =>
             /\ builder_out.ret = Some([variant |-> "Mutable",
                                        points |-> last_points(builder_last)])
             /\ gridstore_index = None)
    /\ [][gridstore_index = None /\ builder_out'.op \in {"add_point", "finalize"} =>
             /\ builder_out'.ok = "service_error"
             /\ builder_out'.ret = None
             /\ gridstore_index' = None]_vars
    /\ [][is_some(gridstore_index) /\ builder_out'.op = "init" =>
             /\ builder_out'.ok = "panic"
             /\ gridstore_index' = gridstore_index]_vars
    /\ [][is_some(gridstore_index) /\ builder_out'.op \in {"add_point", "finalize"} =>
             builder_out'.ok # "service_error"]_vars

\* C28 witness: a second init was rejected on a builder whose index holds points.
GridstoreBuilderProtocolWitness ==
    /\ builder_out.op = "init"
    /\ builder_out.ok = "panic"
    /\ is_some(gridstore_index)
    /\ gridstore_index[1] # {}

\* C29 Last write wins: the in-memory index of the mmap builder holds for each
\* id exactly the values of the last add_point for the id, no values for an id
\* whose last add_point had none or that was never added, and an add_point
\* leaves the values of the other ids as they are.
MmapBuilderLastWriteWins ==
    /\ [](in_memory_index = last_points(builder_last))
    /\ [][builder_out'.op = "add_point" =>
             /\ {p \in in_memory_index' : p[2] = builder_out'.arg[1]}
                    = {Point_new(v, builder_out'.arg[1]) : v \in Elems(builder_out'.arg[2])}
             /\ {p \in in_memory_index' : p[2] # builder_out'.arg[1]}
                    = {p \in in_memory_index : p[2] # builder_out'.arg[1]}]_vars

\* C29 witness: an add_point without values for an id that had values, while
\* another id keeps its own.
MmapBuilderLastWriteWinsWitness ==
    /\ builder_out.op = "add_point"
    /\ builder_out.arg = <<0, <<>>>>
    /\ in_memory_index = {Point_new(1, 1)}
    /\ builder_last = (0 :> {}) @@ (1 :> {1})

====
